---- MODULE Spec2Model ----
(***************************************************************************)
(* Verification model of finapp.py, the Indian macro event and risk       *)
(* analytics dashboard: regime classification, the Macro VaR labelling    *)
(* loop, the market-data resolution cascade, the macro event state, the   *)
(* event reaction return, shock versus drift and the stress test.         *)
(*                                                                         *)
(* Conventions.  Dates are day numbers counted from 2023-08-14.  CPI      *)
(* readings are hundredths of a percent point.  Real numbers computed by  *)
(* the program are exact rationals <<n, d>> with d > 0 in lowest terms.   *)
(* The float not-a-number is <<0, 0>>.  Timestamps are minutes, a day      *)
(* number d standing for minute d * 1440.                                  *)
(***************************************************************************)
EXTENDS Integers, Sequences, FiniteSets

VARIABLES
    pc,            \* position of the running branch of the script
    x,             \* inflation_regime: the argument
    label,         \* inflation_regime: the returned label ("none" before the call)
    rIndex,        \* Macro VaR: r.index, the dates of the daily return series
    i,             \* Macro VaR, Shock vs Drift, Stress Test: loop counter
    daily_regime,  \* Macro VaR: the daily_regime series (date -> label or NaN)
    frame,         \* Macro VaR: index of df after dropna()
    hi,            \* Macro VaR: index of the High Inflation bucket
    lo,            \* Macro VaR: index of the Low Inflation bucket
    event_date,    \* the selected CPI release date (a day number)
    elapsed,       \* get_market_data: now - event_date, in hours
    provider,      \* get_market_data: what yf.download answers for each interval
    requests,      \* get_market_data: the yf.download calls made so far
    df,            \* the frame a branch works on (sequence of [ts, Close])
    tag,           \* get_market_data: the returned interval tag
    now,           \* macro_state: the IST clock, in half minutes since the event day began
    last,          \* macro_state: the value the latest call returned
    lastAt,        \* macro_state: the clock the latest call read
    seen,          \* macro_state: the values returned by all calls so far
    al,            \* the aligned frame (sequence of [t, Close])
    result,        \* reaction_return: the returned value
    assets,        \* Shock vs Drift: the selected assets, in order
    shock,         \* Shock vs Drift: the shock sum; Stress Test: the slider value
    drift,         \* Shock vs Drift: the drift sum
    rows,          \* Shock vs Drift: the table rows
    impact,        \* Stress Test: the accumulated impact
    sens,          \* Stress Test: the value of s computed for each asset so far
    weights        \* Stress Test: PORTFOLIO_WEIGHTS

regimeVars == <<rIndex, daily_regime, frame, hi, lo>>
fetchVars  == <<elapsed, provider, requests, tag>>
stateVars  == <<now, last, lastAt, seen>>
reactVars  == <<al, result>>
sdVars     == <<assets, drift, rows>>
stressVars == <<impact, sens, weights>>

vars == <<pc, x, label, i, event_date, df, shock,
          regimeVars, fetchVars, stateVars, reactVars, sdVars, stressVars>>

NoRegime == "NaN"   \* a missing entry of an object series

(***************************************************************************)
(* Bounds of the model.                                                    *)
(***************************************************************************)
ValueMargin == 60   \* CPI readings range this far beyond the two cuts (hundredths)
MaxTargets  == 2    \* at most this many dates in the daily return series
Slack       == 1    \* return dates lie within this many days of a release date
HourMargin  == 6    \* elapsed hours range this far around 0, 30 and 31 days
ClockMargin == 10   \* the clock ranges this many half minutes around the LIVE window
MaxObs      == 3    \* at most this many observations in a fetched frame

(***************************************************************************)
(* Exact arithmetic on the values the program computes in floating point.  *)
(***************************************************************************)
NaN == <<0, 0>>

Abs(n) == IF n < 0 THEN 0 - n ELSE n

RECURSIVE GCD(_, _)
GCD(a, b) == IF b = 0 THEN a ELSE GCD(b, a % b)

\* the rational n/d, d # 0, in lowest terms with a positive denominator
Rat(n, d) ==
    LET sn == IF d < 0 THEN 0 - n ELSE n
        sd == Abs(d)
        g  == GCD(Abs(sn), sd)
    IN  <<sn \div g, sd \div g>>

IsNaN(q) == q[2] = 0

RatAdd(p, q) == IF IsNaN(p) \/ IsNaN(q) THEN NaN ELSE Rat(p[1] * q[2] + q[1] * p[2], p[2] * q[2])
RatSub(p, q) == IF IsNaN(p) \/ IsNaN(q) THEN NaN ELSE Rat(p[1] * q[2] - q[1] * p[2], p[2] * q[2])
RatMul(p, q) == IF IsNaN(p) \/ IsNaN(q) THEN NaN ELSE Rat(p[1] * q[1], p[2] * q[2])

\* round(v, 2), as the set of values it may return for a double v that the
\* program computed for the real number q.  Away from a tie it is the nearest
\* hundredth.  When q lies exactly half way between two hundredths the double
\* lies on the tie or a rounding error to either side of it (0.005 is stored
\* above the tie and gives 0.01, 0.015 below it and gives 0.01, 0.00625 * 100
\* is computed as 0.6250000000000089 and gives 0.63, 3.125 is exact and gives
\* 3.12), so either neighbour may come out.
Round2(q) ==
    LET m  == 100 * q[1]
        fl == m \div q[2]
        r  == m - fl * q[2]
    IN  IF IsNaN(q) THEN {NaN}
        ELSE IF 2 * r < q[2] THEN {Rat(fl, 100)}
        ELSE IF 2 * r > q[2] THEN {Rat(fl + 1, 100)}
        ELSE {Rat(fl, 100), Rat(fl + 1, 100)}

(***************************************************************************)
(* ASSETS and PORTFOLIO_WEIGHTS.                                           *)
(***************************************************************************)
ASSETS == <<"NIFTY 50", "USD/INR", "India 10Y G-Sec", "India VIX">>

\* the items of PORTFOLIO_WEIGHTS, in dictionary order
PortfolioAssets == <<"NIFTY 50", "USD/INR", "India 10Y G-Sec">>

PORTFOLIO_WEIGHTS ==
    [a \in {PortfolioAssets[k] : k \in 1..Len(PortfolioAssets)} |->
        IF a = "NIFTY 50" THEN Rat(5, 10)
        ELSE IF a = "USD/INR" THEN Rat(3, 10)
        ELSE Rat(2, 10)]

(***************************************************************************)
(* REGIME: inflation_regime, cuts in hundredths.                           *)
(***************************************************************************)
HighCut == 600
LowCut  == 400

inflation_regime_strict(v) ==
    IF v > HighCut THEN "High Inflation"
    ELSE IF v < LowCut THEN "Low Inflation"
    ELSE "Mid Inflation"

inflation_regime(v) ==
    IF v >= HighCut THEN "High Inflation"
    ELSE IF v <= LowCut THEN "Low Inflation"
    ELSE "Mid Inflation"

(***************************************************************************)
(* CPI DATA: load_cpi.  The table is written in date order, which          *)
(* sort_values("Date") keeps.                                              *)
(***************************************************************************)
CpiDate   == <<0, 29, 59, 91, 120, 151, 182, 211, 242, 273, 303>>
CpiActual == <<744, 683, 487, 555, 569, 569, 510, 485, 483, 475, 425>>

load_cpi == [k \in 1..Len(CpiDate) |-> [Date |-> CpiDate[k], Actual |-> CpiActual[k]]]

\* cpi["Regime"] = cpi["Actual"].apply(inflation_regime); regime_map = cpi[["Date","Regime"]]
regime_map ==
    [k \in 1..Len(load_cpi) |->
        [Date |-> load_cpi[k].Date, Regime |-> inflation_regime(load_cpi[k].Actual)]]

\* the release dates the sidebar selectbox is set to in the model: the first and the last
EventChoices == {load_cpi[1].Date, load_cpi[Len(load_cpi)].Date}

\* the subsets of S with at most n elements
RECURSIVE SubsetsUpTo(_, _)
SubsetsUpTo(S, n) ==
    IF n = 0 THEN {{}}
    ELSE LET prev == SubsetsUpTo(S, n - 1)
         IN  prev \cup {T \cup {e} : T \in prev, e \in S}

SetMax(S) == CHOOSE m \in S : \A n \in S : n <= m
SetMin(S) == CHOOSE m \in S : \A n \in S : m <= n

(***************************************************************************)
(* Idle values: the variables of the branches a specification does not run.*)
(***************************************************************************)
IdleClassify == x = 0 /\ label = "none"
IdleRegime ==
    /\ rIndex = {} /\ daily_regime = <<>>
    /\ frame = {} /\ hi = {} /\ lo = {}
IdleFetch  == elapsed = 0 /\ provider = <<>> /\ requests = <<>> /\ tag = "none"
IdleState  == now = 0 /\ last = "none" /\ lastAt = 0 /\ seen = {}
IdleReact  == al = <<>> /\ result = NaN
IdleSD     == assets = <<>> /\ drift = NaN /\ rows = <<>>
IdleStress == impact = NaN /\ sens = <<>> /\ weights = PORTFOLIO_WEIGHTS

(***************************************************************************)
(* inflation_regime applied to one reading.                                *)
(***************************************************************************)
Readings == (LowCut - ValueMargin)..(HighCut + ValueMargin)

InitClassify ==
    /\ pc = "classify"
    /\ x \in Readings
    /\ label = "none"
    /\ i = 0 /\ event_date = 0 /\ df = <<>> /\ shock = NaN
    /\ IdleRegime /\ IdleFetch /\ IdleState /\ IdleReact /\ IdleSD /\ IdleStress

Classify ==
    /\ pc = "classify"
    /\ label' = inflation_regime(x)
    /\ pc' = "classified"
    /\ UNCHANGED <<x, i, event_date, df, shock,
                   regimeVars, fetchVars, stateVars, reactVars, sdVars, stressVars>>

NextClassify == Classify

SpecClassify == InitClassify /\ [][NextClassify]_vars

(***************************************************************************)
(* MACRO VAR: the labelling loop and the regime buckets.                   *)
(***************************************************************************)
\* The dates the daily return series may hold.
TargetGrid == {CpiDate[k] + s : k \in 1..Len(CpiDate), s \in (0 - Slack)..Slack}

\* the boolean mask (daily_regime.index >= start) & (daily_regime.index < end)
MaskOpenStart(idx, start, end) == {t \in idx : t > start /\ t < end}

Mask(idx, start, end) == {t \in idx : t >= start /\ t < end}

\* end = regime_map.loc[i+1,"Date"] if i+1 < len(regime_map) else r.index.max()
\* (k is the 0-based loop counter; r.index.max() of an empty index is NaT,
\* against which every comparison is false)
LoopMask(idx, k) ==
    IF k + 1 < Len(regime_map)
    THEN Mask(idx, regime_map[k + 1].Date, regime_map[k + 2].Date)
    ELSE IF idx = {} THEN {}
    ELSE Mask(idx, regime_map[k + 1].Date, SetMax(idx))

InitVaR ==
    /\ pc = "var_loop"
    /\ rIndex \in SubsetsUpTo(TargetGrid, MaxTargets)
    /\ i = 0
    /\ daily_regime = [t \in rIndex |-> NoRegime]
    /\ frame = {} /\ hi = {} /\ lo = {}
    /\ event_date = 0 /\ df = <<>> /\ shock = NaN
    /\ IdleClassify /\ IdleFetch /\ IdleState /\ IdleReact /\ IdleSD /\ IdleStress

\* one iteration of "for i in range(len(regime_map))"
LabelStep ==
    /\ pc = "var_loop"
    /\ i < Len(regime_map)
    /\ daily_regime' =
          [t \in rIndex |->
              IF t \in LoopMask(rIndex, i) THEN regime_map[i + 1].Regime
              ELSE daily_regime[t]]
    /\ i' = i + 1
    /\ UNCHANGED <<pc, x, label, event_date, df, shock, rIndex, frame, hi, lo,
                   fetchVars, stateVars, reactVars, sdVars, stressVars>>

\* df = DataFrame({"Returns": r, "Regime": daily_regime}).dropna(); hi, lo
Buckets ==
    /\ pc = "var_loop"
    /\ i = Len(regime_map)
    /\ frame' = {t \in rIndex : daily_regime[t] # NoRegime}
    /\ hi' = {t \in rIndex : daily_regime[t] = "High Inflation"}
    /\ lo' = {t \in rIndex : daily_regime[t] = "Low Inflation"}
    /\ pc' = "var_done"
    /\ UNCHANGED <<x, label, i, event_date, df, shock, rIndex, daily_regime,
                   fetchVars, stateVars, reactVars, sdVars, stressVars>>

NextVaR == LabelStep \/ Buckets

SpecVaR == InitVaR /\ [][NextVaR]_vars

(***************************************************************************)
(* Frames: what yf.download returns, a sequence of [ts, Close] rows with   *)
(* strictly increasing timestamps.                                         *)
(***************************************************************************)
Prices == {2, 3}

RECURSIVE SortedSeq(_)
SortedSeq(S) ==
    IF S = {} THEN <<>>
    ELSE LET m == SetMin(S) IN <<m>> \o SortedSeq(S \ {m})

\* the frames whose timestamps are exactly the offsets S (minutes from the event)
FramesOn(S) ==
    LET ord == SortedSeq(S)
    IN  {[k \in 1..Len(ord) |-> [ts |-> ord[k], Close |-> p[k]]] :
            p \in [1..Len(ord) -> Prices]}

OffsetFrames(grid, n) == UNION {FramesOn(S) : S \in SubsetsUpTo(grid, n)}

\* the same frame with timestamps counted from the epoch, for the event day ev
Shift(f, ev) == [k \in 1..Len(f) |-> [ts |-> ev * 1440 + f[k].ts, Close |-> f[k].Close]]

\* df.empty
EmptyIfShort(f) == Len(f) <= 1

Empty(f) == Len(f) = 0

(***************************************************************************)
(* MARKET DATA: get_market_data, one action per yf.download call.          *)
(***************************************************************************)
Intervals == {"1m", "5m", "1d"}

\* (now - event_date).days: whole days, rounded down
Days(h) == h \div 24

MinuteTierDueStrict(h) == Days(h) < 30

\* if (now - event_date).days <= 30
MinuteTierDue(h) == Days(h) <= 30

\* the arguments of one yf.download call; span is the half width in minutes
Request(interval, ev, span) ==
    [interval |-> interval, start |-> ev * 1440 - span, end |-> ev * 1440 + span]

Failure == [ok |-> FALSE, data |-> <<>>]

\* what the provider may answer: a failure, or a frame of at most one row
Answers(ev) ==
    {Failure} \cup {[ok |-> TRUE, data |-> Shift(f, ev)] : f \in OffsetFrames({0}, 1)}

ElapsedHours ==
    ((0 - HourMargin)..HourMargin) \cup ((30 * 24 - HourMargin)..(31 * 24 + HourMargin))

InitFetch ==
    /\ pc = "fetch_start"
    /\ event_date \in EventChoices
    /\ elapsed \in ElapsedHours
    /\ provider \in [Intervals -> Answers(event_date)]
    /\ requests = <<>>
    /\ df = <<>> /\ tag = "none"
    /\ i = 0 /\ shock = NaN
    /\ IdleClassify /\ IdleRegime /\ IdleState /\ IdleReact /\ IdleSD /\ IdleStress

\* the except clause: return pd.DataFrame(), "NA"
Caught ==
    /\ df' = <<>>
    /\ tag' = "NA"
    /\ pc' = "fetch_returned"

FetchRest == <<x, label, i, event_date, shock, elapsed, provider,
               regimeVars, stateVars, reactVars, sdVars, stressVars>>

Fetch1m ==
    /\ pc = "fetch_start"
    /\ MinuteTierDue(elapsed)
    /\ requests' = Append(requests, Request("1m", event_date, 2 * 60))
    /\ IF ~provider["1m"].ok THEN Caught
       ELSE IF ~Empty(provider["1m"].data)
            THEN df' = provider["1m"].data /\ tag' = "1m" /\ pc' = "fetch_returned"
            ELSE pc' = "fetch_5m" /\ UNCHANGED <<df, tag>>
    /\ UNCHANGED FetchRest

Fetch5m ==
    /\ \/ pc = "fetch_5m"
       \/ pc = "fetch_start" /\ ~MinuteTierDue(elapsed)
    /\ requests' = Append(requests, Request("5m", event_date, 2 * 1440))
    /\ IF ~provider["5m"].ok THEN Caught
       ELSE IF ~Empty(provider["5m"].data)
            THEN df' = provider["5m"].data /\ tag' = "5m" /\ pc' = "fetch_returned"
            ELSE pc' = "fetch_1d" /\ UNCHANGED <<df, tag>>
    /\ UNCHANGED FetchRest

Fetch1d ==
    /\ pc = "fetch_1d"
    /\ requests' = Append(requests, Request("1d", event_date, 10 * 1440))
    /\ IF ~provider["1d"].ok THEN Caught
       ELSE df' = provider["1d"].data /\ tag' = "1d" /\ pc' = "fetch_returned"
    /\ UNCHANGED FetchRest

NextFetch == Fetch1m \/ Fetch5m \/ Fetch1d

SpecFetch == InitFetch /\ [][NextFetch]_vars

(***************************************************************************)
(* EVENT STATE: macro_state, called by the sidebar and by the LIVE gate.   *)
(* The clock counts half minutes from the start of the event day in IST.   *)
(***************************************************************************)
ReleaseTick == (17 * 60 + 30) * 2   \* datetime(date.year, date.month, date.day, 17, 30)
LiveTicks   == 60 * 2               \* timedelta(minutes=60)

macro_state_open(n) ==
    IF n < ReleaseTick THEN "PRE"
    ELSE IF n < ReleaseTick + LiveTicks THEN "LIVE"
    ELSE "POST"

macro_state(n) ==
    IF n < ReleaseTick THEN "PRE"
    ELSE IF n <= ReleaseTick + LiveTicks THEN "LIVE"
    ELSE "POST"

FirstTick == ReleaseTick - ClockMargin
LastTick  == ReleaseTick + LiveTicks + ClockMargin

InitState ==
    /\ pc = "sidebar"
    /\ now \in FirstTick..LastTick
    /\ last = "none" /\ lastAt = 0 /\ seen = {}
    /\ event_date \in EventChoices
    /\ i = 0 /\ df = <<>> /\ shock = NaN
    /\ IdleClassify /\ IdleRegime /\ IdleFetch /\ IdleReact /\ IdleSD /\ IdleStress

StateRest == <<x, label, i, event_date, df, shock,
               regimeVars, fetchVars, reactVars, sdVars, stressVars>>

\* the clock moves forward
Tick ==
    /\ now < LastTick
    /\ now' = now + 1
    /\ UNCHANGED <<pc, last, lastAt, seen>>
    /\ UNCHANGED StateRest

\* one call of macro_state(event_date)
Call ==
    /\ last' = macro_state(now)
    /\ lastAt' = now
    /\ seen' = seen \cup {macro_state(now)}

\* st.sidebar.metric("State", macro_state(event_date))
SidebarState ==
    /\ pc = "sidebar"
    /\ Call
    /\ pc' = "gate"
    /\ UNCHANGED now
    /\ UNCHANGED StateRest

\* if macro_state(event_date) == "LIVE":
LiveGate ==
    /\ pc = "gate"
    /\ Call
    /\ pc' = IF macro_state(now) = "LIVE" THEN "sleep" ELSE "body"
    /\ UNCHANGED now
    /\ UNCHANGED StateRest

\* time.sleep(30); st.experimental_rerun()
SleepRerun ==
    /\ pc = "sleep"
    /\ now < LastTick
    /\ now' = now + 1
    /\ pc' = "sidebar"
    /\ UNCHANGED <<last, lastAt, seen>>
    /\ UNCHANGED StateRest

\* the script ran to its end; a widget change runs it again
WidgetRerun ==
    /\ pc = "body"
    /\ pc' = "sidebar"
    /\ UNCHANGED <<now, last, lastAt, seen>>
    /\ UNCHANGED StateRest

NextState == Tick \/ SidebarState \/ LiveGate \/ SleepRerun \/ WidgetRerun

SpecState == InitState /\ [][NextState]_vars

(***************************************************************************)
(* align_event and reaction_return.                                        *)
(***************************************************************************)
\* df["t"] = (df.index - event_date).total_seconds() / 60; df.set_index("t")
align_event(f, ev) == [k \in 1..Len(f) |-> [t |-> f[k].ts - ev * 1440, Close |-> f[k].Close]]

PreRowsUpToEvent(a) == SelectSeq(a, LAMBDA o : o.t <= 0)

\* df.loc[df.index < 0]
PreRows(a) == SelectSeq(a, LAMBDA o : o.t < 0)

\* df.loc[df.index > 0]
PostRows(a) == SelectSeq(a, LAMBDA o : o.t > 0)

\* .iloc[-1] and .iloc[0] raise IndexError on an empty selection; the bare
\* except turns that into np.nan
reaction_return(a) ==
    IF Len(PreRows(a)) = 0 \/ Len(PostRows(a)) = 0 THEN NaN
    ELSE LET pre  == PreRows(a)[Len(PreRows(a))].Close
             post == PostRows(a)[1].Close
         IN  RatMul(RatSub(Rat(post, pre), Rat(1, 1)), Rat(100, 1))

\* offsets, in minutes from the event, of the rows a frame may hold
ReactionGrid == {0 - 10, 0 - 5, 0, 5, 10}

ReactionFrames == OffsetFrames(ReactionGrid, MaxObs)

InitReact ==
    /\ pc = "react_align"
    /\ event_date \in EventChoices
    /\ df \in {Shift(f, event_date) : f \in ReactionFrames}
    /\ al = <<>> /\ result = NaN
    /\ i = 0 /\ shock = NaN
    /\ IdleClassify /\ IdleRegime /\ IdleFetch /\ IdleState /\ IdleSD /\ IdleStress

ReactRest == <<x, label, i, event_date, df, shock,
               regimeVars, fetchVars, stateVars, sdVars, stressVars>>

\* al = align_event(df, event_date)
Align ==
    /\ pc = "react_align"
    /\ al' = align_event(df, event_date)
    /\ pc' = "react_call"
    /\ UNCHANGED result
    /\ UNCHANGED ReactRest

\* reaction_return(al)
React ==
    /\ pc = "react_call"
    /\ result' = reaction_return(al)
    /\ pc' = "react_done"
    /\ UNCHANGED al
    /\ UNCHANGED ReactRest

NextReact == Align \/ React

SpecReact == InitReact /\ [][NextReact]_vars

(***************************************************************************)
(* SHOCK VS DRIFT.                                                         *)
(***************************************************************************)
WindowClosedLeft(a, from, to) == SelectSeq(a, LAMBDA o : o.t >= from /\ o.t <= to)

\* al.loc[(al.index > from) & (al.index <= to)]
Window(a, from, to) == SelectSeq(a, LAMBDA o : o.t > from /\ o.t <= to)

\* ["Close"].pct_change().sum(): the first row's change is NaN, which sum() skips
RECURSIVE PctChangeSum(_)
PctChangeSum(w) ==
    IF Len(w) <= 1 THEN Rat(0, 1)
    ELSE RatAdd(PctChangeSum(SubSeq(w, 1, Len(w) - 1)),
                RatSub(Rat(w[Len(w)].Close, w[Len(w) - 1].Close), Rat(1, 1)))

\* [asset, round(float(shock*100),2), round(float(drift*100),2)]: the rows
\* the code may append, one for each outcome of the two roundings
Row(asset, sh, dr) ==
    {[asset |-> asset, shock |-> a, drift |-> b] :
        a \in Round2(RatMul(sh, Rat(100, 1))),
        b \in Round2(RatMul(dr, Rat(100, 1)))}

ShockDriftGrid == {0, 5, 10, 15, 16, 60, 61}

ShockDriftFrames == OffsetFrames(ShockDriftGrid, MaxObs)

\* the multiselect settings the model runs
Selections ==
    {<<>>, <<"NIFTY 50", "USD/INR">>} \cup {<<ASSETS[k]>> : k \in 1..Len(ASSETS)}

InitSD ==
    /\ pc = "sd_loop"
    /\ event_date \in EventChoices
    /\ assets \in Selections
    /\ i = 0
    /\ df = <<>> /\ al = <<>>
    /\ shock = NaN /\ drift = NaN
    /\ rows = <<>>
    /\ result = NaN
    /\ IdleClassify /\ IdleRegime /\ IdleFetch /\ IdleState /\ IdleStress

SDRest == <<pc, x, label, event_date, assets, result,
            regimeVars, fetchVars, stateVars, stressVars>>

\* one iteration of "for asset in assets"; f is the frame get_market_data returns
SDStep ==
    /\ pc = "sd_loop"
    /\ i < Len(assets)
    /\ \E f \in ShockDriftFrames :
          LET d  == Shift(f, event_date)
              a  == align_event(d, event_date)
              sh == PctChangeSum(Window(a, 0, 15))
              dr == PctChangeSum(Window(a, 15, 60))
          IN  /\ df' = d
              /\ IF Empty(d)
                 THEN UNCHANGED <<al, shock, drift, rows>>
                 ELSE /\ al' = a
                      /\ shock' = sh
                      /\ drift' = dr
                      /\ \E row \in Row(assets[i + 1], sh, dr) :
                            rows' = Append(rows, row)
    /\ i' = i + 1
    /\ UNCHANGED SDRest

\* st.table(pd.DataFrame(rows, ...))
SDTable ==
    /\ pc = "sd_loop"
    /\ i = Len(assets)
    /\ pc' = "sd_done"
    /\ UNCHANGED <<x, label, i, event_date, df, shock, assets, drift, rows,
                   regimeVars, fetchVars, stateVars, reactVars, stressVars>>

NextSD == SDStep \/ SDTable

SpecSD == InitSD /\ [][NextSD]_vars

(***************************************************************************)
(* STRESS TEST.                                                            *)
(***************************************************************************)
\* settings of st.slider("Macro Shock (%)", -2.0, 2.0, 1.0), in hundredths
SliderGrid == {0 - 200, 0 - 50, 0, 1, 100, 200}

AddUnscaled(imp, w, sv, sh) ==
    IF IsNaN(sv) THEN imp
    ELSE RatAdd(imp, RatMul(w, sv))

\* if not np.isnan(s): impact += float(w * s * shock)

Add(imp, w, sv, sh) ==
    IF IsNaN(sv) THEN imp
    ELSE RatAdd(imp, RatMul(RatMul(w, sv), sh))

\* offsets, in minutes from the event, of the rows of the frames of this branch
StressGrid == {0 - 5, 0, 5}

StressFrames == OffsetFrames(StressGrid, MaxObs)

InitStress ==
    /\ pc = "stress_loop"
    /\ event_date \in EventChoices
    /\ shock \in {Rat(h, 100) : h \in SliderGrid}
    /\ impact = Rat(0, 1)
    /\ i = 0
    /\ sens = <<>>
    /\ weights = PORTFOLIO_WEIGHTS
    /\ df = <<>> /\ result = NaN /\ al = <<>>
    /\ IdleClassify /\ IdleRegime /\ IdleFetch /\ IdleState /\ IdleSD

StressRest == <<x, label, event_date, shock, weights,
                regimeVars, fetchVars, stateVars, sdVars>>

\* one iteration of "for asset, w in PORTFOLIO_WEIGHTS.items()"; f is the frame
\* get_market_data returns.  sens records, for each asset processed, whether
\* the frame was empty and the value of s.
StressStep ==
    /\ pc = "stress_loop"
    /\ i < Len(PortfolioAssets)
    /\ \E f \in StressFrames :
          LET asset == PortfolioAssets[i + 1]
              d     == Shift(f, event_date)
              a     == align_event(d, event_date)
              sv    == reaction_return(a)
          IN  /\ df' = d
              /\ IF Empty(d)
                 THEN /\ sens' = Append(sens, [asset |-> asset, nodata |-> TRUE, s |-> NaN])
                      /\ UNCHANGED <<al, impact>>
                 ELSE /\ al' = a
                      /\ sens' = Append(sens, [asset |-> asset, nodata |-> FALSE, s |-> sv])
                      /\ impact' = Add(impact, weights[asset], sv, shock)
    /\ i' = i + 1
    /\ UNCHANGED <<pc, result>>
    /\ UNCHANGED StressRest

\* st.metric("Estimated Portfolio Impact (%)", round(impact, 2))
StressMetric ==
    /\ pc = "stress_loop"
    /\ i = Len(PortfolioAssets)
    /\ result' \in Round2(impact)
    /\ pc' = "stress_done"
    /\ UNCHANGED <<i, impact, sens, df, al>>
    /\ UNCHANGED StressRest

NextStress == StressStep \/ StressMetric

SpecStress == InitStress /\ [][NextStress]_vars

(***************************************************************************)
(* Properties.                                                             *)
(***************************************************************************)
Labels == {"High Inflation", "Mid Inflation", "Low Inflation"}

\* C10: inflation_regime returns exactly one label for every reading: High
\* at or above the high cut, Low at or below the low cut, Mid strictly
\* between; a reading exactly at a cut belongs to the outer regime.
C10_ClassifyTotal ==
    pc = "classified" =>
        /\ label \in Labels
        /\ (x >= HighCut => label = "High Inflation")
        /\ (x <= LowCut => label = "Low Inflation")
        /\ (LowCut < x /\ x < HighCut => label = "Mid Inflation")

C10_Witness == pc = "classified" /\ x = HighCut /\ label = "High Inflation"

LastEvent == Len(regime_map)

\* C1: once the labelling loop is over, every date of the return series at or
\* after the last release date, the latest date included, carries the regime
\* of the last release.
C1_LastRegimeExtends ==
    pc = "var_done" =>
        \A t \in rIndex :
            t >= regime_map[LastEvent].Date => daily_regime[t] = regime_map[LastEvent].Regime

\* C6: once the labelling loop is over, every date between two consecutive
\* release dates (the earlier one included) carries the regime of the earlier
\* release and is kept; every date before the first release carries no regime
\* and is in no bucket.
C6_StepBetweenEvents ==
    pc = "var_done" =>
        /\ \A k \in 1..(LastEvent - 1) : \A t \in rIndex :
              (CpiDate[k] <= t /\ t < CpiDate[k + 1]) =>
                  /\ daily_regime[t] = regime_map[k].Regime
                  /\ t \in frame
                  /\ (t \in hi <=> regime_map[k].Regime = "High Inflation")
                  /\ (t \in lo <=> regime_map[k].Regime = "Low Inflation")
        /\ \A t \in rIndex :
              t < CpiDate[1] =>
                  daily_regime[t] = NoRegime /\ t \notin (frame \cup hi \cup lo)

C6_Witness ==
    /\ pc = "var_done"
    /\ \E t \in rIndex : t < CpiDate[1] /\ t \notin frame
    /\ \E t \in rIndex : t = CpiDate[1] /\ daily_regime[t] = "High Inflation" /\ t \in hi

Requested(interval) == \E k \in 1..Len(requests) : requests[k].interval = interval

\* C2: a failed call is treated as an empty answer of that tier only, so the
\* next coarser tier is still requested after it.
C2_FailureFallsThrough ==
    pc = "fetch_returned" =>
        /\ (Requested("1m") /\ ~provider["1m"].ok => Requested("5m"))
        /\ (Requested("5m") /\ ~provider["5m"].ok => Requested("1d"))

\* C3 as stated: the minute tier is requested exactly when the elapsed
\* duration is at most 30 days (720 hours).
C3_MinuteTierWithin30Days ==
    pc = "fetch_returned" => (Requested("1m") <=> elapsed <= 30 * 24)

\* C3: the minute tier is requested, as the first request, exactly when the
\* elapsed duration is less than 31 days (its whole days are at most 30); from
\* 31 days on the first request is the 5-minute one and no minute request is made.
C3_MinuteTierWithinWholeDays ==
    requests # <<>> =>
        /\ (requests[1].interval = "1m" <=> elapsed < 31 * 24)
        /\ (elapsed >= 31 * 24 => requests[1].interval = "5m")
        /\ \A k \in 2..Len(requests) : requests[k].interval # "1m"

C3_Witness ==
    /\ pc = "fetch_returned"
    /\ elapsed > 30 * 24 /\ elapsed < 31 * 24
    /\ requests[1].interval = "1m"

TierRank(interval) == IF interval = "1m" THEN 1 ELSE IF interval = "5m" THEN 2 ELSE 3

NoCallFailed == \A k \in 1..Len(requests) : provider[requests[k].interval].ok

\* C4: when no call fails, the tiers are requested in the order 1-minute,
\* 5-minute, daily, each at most once and each only after every earlier
\* request came back empty; the returned frame is the answer of the first tier
\* requested that was not empty (or of the daily tier), tagged with that tier,
\* and a frame tagged 1m or 5m is never empty.
C4_FirstNonEmptyTier ==
    NoCallFailed =>
        /\ \A j, k \in 1..Len(requests) :
              j < k => /\ TierRank(requests[j].interval) < TierRank(requests[k].interval)
                       /\ Len(provider[requests[j].interval].data) = 0
        /\ pc = "fetch_returned" =>
              /\ tag \in Intervals
              /\ requests[Len(requests)].interval = tag
              /\ df = provider[tag].data
              /\ (tag # "1d" => Len(df) > 0)
              /\ (Len(df) = 0 => \A k \in 1..Len(requests) :
                                    Len(provider[requests[k].interval].data) = 0)

C4_Witness ==
    /\ pc = "fetch_returned"
    /\ NoCallFailed
    /\ Len(requests) = 2
    /\ Len(provider["1m"].data) = 0
    /\ tag = "5m" /\ Len(df) = 1

StateRank(st) == IF st = "PRE" THEN 1 ELSE IF st = "LIVE" THEN 2 ELSE 3

\* C5: every call of macro_state returns PRE exactly when the clock it read is
\* before the release, LIVE exactly from the release to 60 minutes after it
\* (both ends included) and POST exactly after that; no call returns a state
\* earlier in the order PRE, LIVE, POST than a state returned before.
C5_StateByClockAndMonotone ==
    last # "none" =>
        /\ (last = "PRE" <=> lastAt < ReleaseTick)
        /\ (last = "LIVE" <=> ReleaseTick <= lastAt /\ lastAt <= ReleaseTick + LiveTicks)
        /\ (last = "POST" <=> lastAt > ReleaseTick + LiveTicks)
        /\ \A st \in seen : StateRank(st) <= StateRank(last)

C5_Witness ==
    /\ last = "POST"
    /\ seen = {"PRE", "LIVE", "POST"}

NegRows(a) == {k \in DOMAIN a : a[k].t < 0}
PosRows(a) == {k \in DOMAIN a : a[k].t > 0}

\* C7: reaction_return is NaN exactly when the aligned frame has no row before
\* the event or none after it; otherwise it is 100 * (post - pre) / pre with
\* pre the price of the last row before the event and post the price of the
\* first row after it, a row at the event itself being neither.
C7_ReactionReturn ==
    pc = "react_done" =>
        /\ Len(al) = Len(df)
        /\ \A k \in DOMAIN al : al[k].t = df[k].ts - event_date * 1440
        /\ (IsNaN(result) <=> (NegRows(al) = {} \/ PosRows(al) = {}))
        /\ (NegRows(al) # {} /\ PosRows(al) # {}) =>
              LET pre  == al[SetMax(NegRows(al))].Close
                  post == al[SetMin(PosRows(al))].Close
              IN  result = Rat(100 * (post - pre), pre)

C7_Witness ==
    /\ pc = "react_done"
    /\ \E k \in DOMAIN al : al[k].t = 0 /\ al[k].Close = 3
    /\ result = Rat(50, 1)

InWindow(a, from, to) == {k \in DOMAIN a : a[k].t > from /\ a[k].t <= to}

\* v is a hundredth nearest to the rational q (either one when q is half way)
NearestHundredth(v, q) ==
    /\ ~IsNaN(v) /\ 100 % v[2] = 0
    /\ 2 * Abs(100 * q[1] - v[1] * (100 \div v[2]) * q[2]) <= q[2]

\* the sum, over the rows K of a that have their predecessor in K, of the
\* relative change from the predecessor
RECURSIVE ChangeSumOver(_, _)
ChangeSumOver(a, K) ==
    IF K = {} THEN Rat(0, 1)
    ELSE LET m == SetMax(K)
         IN  RatAdd(ChangeSumOver(a, K \ {m}),
                    IF (m - 1) \in K
                    THEN Rat(a[m].Close - a[m - 1].Close, a[m - 1].Close)
                    ELSE Rat(0, 1))

\* C9: for the asset whose row was appended last, shock is the sum of the
\* relative changes between consecutive rows with offset in (0, 15] and drift
\* the same over (15, 60]; a window of 0 or 1 rows gives 0, never NaN; the
\* table shows both times 100, as a nearest hundredth.
C9_ShockDrift ==
    rows # <<>> =>
        /\ shock = ChangeSumOver(al, InWindow(al, 0, 15))
        /\ drift = ChangeSumOver(al, InWindow(al, 15, 60))
        /\ (Cardinality(InWindow(al, 0, 15)) <= 1 => shock = Rat(0, 1))
        /\ (Cardinality(InWindow(al, 15, 60)) <= 1 => drift = Rat(0, 1))
        /\ ~IsNaN(shock) /\ ~IsNaN(drift)
        /\ NearestHundredth(rows[Len(rows)].shock, Rat(100 * shock[1], shock[2]))
        /\ NearestHundredth(rows[Len(rows)].drift, Rat(100 * drift[1], drift[2]))

C9_Witness ==
    /\ rows # <<>>
    /\ Cardinality(InWindow(al, 0, 15)) = 1
    /\ Cardinality(InWindow(al, 15, 60)) = 2
    /\ shock = Rat(0, 1)
    /\ drift = Rat(0 - 1, 3)
    /\ rows[Len(rows)].drift = Rat(0 - 3333, 100)

\* the assets processed so far whose s is a number
Counted == {sens[k].asset : k \in {j \in 1..Len(sens) : ~IsNaN(sens[j].s)}}

SensOf(a) == sens[CHOOSE k \in 1..Len(sens) : sens[k].asset = a].s

Term(a) == RatMul(RatMul(PORTFOLIO_WEIGHTS[a], SensOf(a)), shock)

RECURSIVE TermSum(_)
TermSum(S) ==
    IF S = {} THEN Rat(0, 1)
    ELSE LET a == CHOOSE b \in S : TRUE IN RatAdd(Term(a), TermSum(S \ {a}))

\* the same sum taken over a sequence of assets from its last element to its first
RECURSIVE TermSumBackwards(_)
TermSumBackwards(q) ==
    IF q = <<>> THEN Rat(0, 1)
    ELSE RatAdd(TermSumBackwards(Tail(q)), Term(Head(q)))

\* C8: impact is the sum of weight * sensitivity * shock over the assets
\* processed whose sensitivity is a number, whatever the order of summation;
\* an asset with a NaN sensitivity or an empty frame adds nothing; the
\* portfolio weights stay as configured.
C8_StressImpact ==
    pc \in {"stress_loop", "stress_done"} =>
        /\ impact = TermSum(Counted)
        /\ impact = TermSumBackwards(SelectSeq(PortfolioAssets, LAMBDA a : a \in Counted))
        /\ weights = PORTFOLIO_WEIGHTS
        /\ (pc = "stress_done" => Len(sens) = Len(PortfolioAssets) /\ NearestHundredth(result, impact))

C8_Witness ==
    /\ pc = "stress_done"
    /\ sens[1].nodata
    /\ ~sens[2].nodata /\ IsNaN(sens[2].s)
    /\ sens[3].s = Rat(50, 1)
    /\ shock = Rat(1, 1)
    /\ impact = Rat(10, 1)

====
